---- MODULE Spec2Model ----
(***************************************************************************)
(* Model of python/MessagesProxy/SubscribeSocialSentiment/client.py.       *)
(*                                                                         *)
(* main() is one sequential thread: read the certificate file and wrap it  *)
(* (line 14), create the secure channel (line 17), create the stub         *)
(* (line 20), invoke the response-streaming RPC (line 23), iterate the     *)
(* response iterator (line 24) and print two fields of every message       *)
(* (line 26).  There is no try/except anywhere: an exception raised by any *)
(* statement leaves main(), and the interpreter exits with status 1; when  *)
(* main() returns, the interpreter exits with status 0.                    *)
(*                                                                         *)
(* The environment of the script is: the file at PATH_TO_CERT_FILE, the    *)
(* server at SERVER_ADDRESS, and the events the response iterator yields.  *)
(* grpc.ssl_channel_credentials and grpc.secure_channel perform no network *)
(* I/O: the connection (name resolution, TLS handshake) is attempted when  *)
(* an RPC is started, and its failure is raised by the response iterator   *)
(* as grpc.RpcError.                                                       *)
(***************************************************************************)
EXTENDS Integers, Sequences, FiniteSets, TLC

\* ---------------------------------------------------------------- bounds
MaxRecords == 2          \* longest stream the server intends to send
MaxRuns == 2             \* number of separate processes started in SpecRuns

\* ------------------------------------------------------------- constants
SERVER_ADDRESS == "SERVER"
PATH_TO_CERT_FILE == "./cert.pem"

\* Fields of a message of the stream that the script reads (line 26).
Ids == {"AAPL", "MSFT"}
Avgs == {-1, 1}          \* stand for the floats -1.0 and 1.0
Candle == [id : Ids, sentiment_avg : Avgs]

\* The loop variable before the first iteration binds it.
Unbound == [id |-> "", sentiment_avg |-> 0]

\* What open(PATH_TO_CERT_FILE, 'rb') finds, and what SERVER_ADDRESS is.
CertFiles == {"valid", "malformed", "missing", "unreadable"}
Servers == {"reachable", "unreachable"}
Endings == {"close", "error"}

SeqsUpTo(S, n) == UNION {[1..k -> S] : k \in 0..n}

VARIABLES
    certFile,       \* environment: state of the file at PATH_TO_CERT_FILE
    server,         \* environment: whether SERVER_ADDRESS can be reached
    records,        \* environment: the N messages the server intends to send
    ending,         \* environment: how the stream ends
    K,              \* environment: messages delivered before the stream ends
    arrived,        \* stream events (messages, then the end) that reached the client
    pc,             \* source line main() executes next; 0 after the process exited
    creds,          \* line 14
    channel,        \* line 17: "None" or the address the channel targets
    stub,           \* line 20
    candle_stream,  \* line 23
    iterating,      \* line 24: the for statement has taken the iterator
    candle,         \* line 24: loop variable, Unbound before the first message
    received,       \* messages next() has returned so far
    stdout,         \* lines printed
    raised,         \* the uncaught exception, "None" if none
    exit,           \* process exit status, -1 while running
    certReads,      \* number of open() calls on the certificate file
    channelsOpened, \* number of grpc.secure_channel calls
    callsIssued,    \* number of SubscribeSocialSentiment calls
    run,            \* index of the current process
    prevStdout,     \* output of the previous process
    prevExit        \* exit status of the previous process

env == <<certFile, server, records, ending, K>>
proc == <<pc, creds, channel, stub, candle_stream, iterating, candle,
          received, stdout, raised, exit>>
counters == <<certReads, channelsOpened, callsIssued>>
runs == <<run, prevStdout, prevExit>>
vars == <<env, arrived, proc, counters, runs>>

\* The connection can be established: TLS handshake with the given
\* certificate against a reachable server.
Connects == certFile = "valid" /\ server = "reachable"

\* ------------------------------------------------------------ print()
\* str() of a float with an integral value.
PyStr(x) == ToString(x) \o ".0"

\* print(candle.id, candle.sentiment_avg): the str() of the arguments in
\* order, separated by one space (the line's text, without the newline).
PrintedLine(c) == c.id \o " " \o PyStr(c.sentiment_avg)

PrintedLines(s) == [i \in 1..Len(s) |-> PrintedLine(s[i])]

\* --------------------------------------------------------------- Init
Init ==
    /\ certFile \in CertFiles
    /\ server \in Servers
    /\ records \in SeqsUpTo(Candle, MaxRecords)
    /\ ending \in Endings
    /\ K \in 0..Len(records)
    /\ ending = "close" => K = Len(records)
    /\ ~Connects => (ending = "error" /\ K = 0)
    /\ arrived = 0
    /\ pc = 14
    /\ creds = FALSE
    /\ channel = "None"
    /\ stub = FALSE
    /\ candle_stream = FALSE
    /\ iterating = FALSE
    /\ candle = Unbound
    /\ received = <<>>
    /\ stdout = <<>>
    /\ raised = "None"
    /\ exit = -1
    /\ certReads = 0
    /\ channelsOpened = 0
    /\ callsIssued = 0
    /\ run = 1
    /\ prevStdout = <<>>
    /\ prevExit = -1

\* Variant of Raise: the exception is caught and the process exits normally.
RaiseExitZero(e) ==
    /\ raised' = e
    /\ exit' = 0
    /\ pc' = 0

\* An exception leaves main() uncaught: traceback, exit status 1.
Raise(e) ==
    /\ raised' = e
    /\ exit' = 1
    /\ pc' = 0

\* ------------------------------------------------------------ actions
\* Variant of LoadCredentials: a failed open() is ignored and the script
\* goes on with empty credentials.
LoadCredentialsIgnoresError ==
    /\ pc = 14
    /\ certReads' = certReads + 1
    /\ creds' = TRUE
    /\ pc' = 17
    /\ UNCHANGED <<env, arrived, channel, stub, candle_stream, iterating,
                   candle, received, stdout, raised, exit, channelsOpened,
                   callsIssued, runs>>

\* line 14: creds = grpc.ssl_channel_credentials(open(PATH, 'rb').read())
LoadCredentials ==
    /\ pc = 14
    /\ certReads' = certReads + 1
    /\ IF certFile \in {"missing", "unreadable"}
       THEN /\ Raise("OSError")
            /\ UNCHANGED creds
       ELSE /\ creds' = TRUE
            /\ pc' = 17
            /\ UNCHANGED <<raised, exit>>
    /\ UNCHANGED <<env, arrived, channel, stub, candle_stream, iterating,
                   candle, received, stdout, channelsOpened, callsIssued, runs>>

\* Variant of OpenChannel: the channel connects when it is created, and an
\* unreachable server makes the creation raise.
OpenChannelEager ==
    /\ pc = 17
    /\ channelsOpened' = channelsOpened + 1
    /\ IF server = "unreachable"
       THEN /\ Raise("RpcError")
            /\ UNCHANGED channel
       ELSE /\ channel' = SERVER_ADDRESS
            /\ pc' = 20
            /\ UNCHANGED <<raised, exit>>
    /\ UNCHANGED <<env, arrived, creds, stub, candle_stream, iterating, candle,
                   received, stdout, certReads, callsIssued, runs>>

\* line 17: channel = grpc.secure_channel(SERVER_ADDRESS, creds)
OpenChannel ==
    /\ pc = 17
    /\ channel' = SERVER_ADDRESS
    /\ channelsOpened' = channelsOpened + 1
    /\ pc' = 20
    /\ UNCHANGED <<env, arrived, creds, stub, candle_stream, iterating, candle,
                   received, stdout, raised, exit, certReads, callsIssued, runs>>

\* line 20: stub = types_pb2_grpc.MessagesProxyStub(channel)
CreateStub ==
    /\ pc = 20
    /\ stub' = TRUE
    /\ pc' = 23
    /\ UNCHANGED <<env, arrived, creds, channel, candle_stream, iterating,
                   candle, received, stdout, raised, exit, counters, runs>>

\* line 23: candle_stream = stub.SubscribeSocialSentiment(empty_pb2.Empty())
Subscribe ==
    /\ pc = 23
    /\ candle_stream' = TRUE
    /\ callsIssued' = callsIssued + 1
    /\ pc' = 24
    /\ UNCHANGED <<env, arrived, creds, channel, stub, iterating, candle,
                   received, stdout, raised, exit, certReads, channelsOpened,
                   runs>>

\* line 24: the for statement takes the iterator of candle_stream
StartConsuming ==
    /\ pc = 24
    /\ ~iterating
    /\ iterating' = TRUE
    /\ UNCHANGED <<env, arrived, pc, creds, channel, stub, candle_stream,
                   candle, received, stdout, raised, exit, counters, runs>>

\* The transport hands the next stream event to the call: one of the K
\* messages, then the end of the stream (status OK, or an error status).
Deliver ==
    /\ candle_stream
    /\ pc # 0
    /\ arrived < K + 1
    /\ arrived' = arrived + 1
    /\ UNCHANGED <<env, proc, counters, runs>>

\* Variant of NextCandle: next() returns the newest message that arrived
\* instead of the oldest one not yet returned.
NextCandleLatest ==
    /\ pc = 24
    /\ iterating
    /\ Len(received) < K
    /\ arrived > Len(received)
    /\ candle' = records[IF arrived > K THEN K ELSE arrived]
    /\ received' = Append(received, records[IF arrived > K THEN K ELSE arrived])
    /\ pc' = 26
    /\ UNCHANGED <<env, arrived, creds, channel, stub, candle_stream,
                   iterating, stdout, raised, exit, counters, runs>>

\* line 24: next(candle_stream) returns a message
NextCandle ==
    /\ pc = 24
    /\ iterating
    /\ Len(received) < K
    /\ arrived > Len(received)
    /\ candle' = records[Len(received) + 1]
    /\ received' = Append(received, records[Len(received) + 1])
    /\ pc' = 26
    /\ UNCHANGED <<env, arrived, creds, channel, stub, candle_stream,
                   iterating, stdout, raised, exit, counters, runs>>

\* Variant of PrintCandle: only the id is printed.
PrintCandleIdOnly ==
    /\ pc = 26
    /\ stdout' = Append(stdout, candle.id)
    /\ pc' = 24
    /\ UNCHANGED <<env, arrived, creds, channel, stub, candle_stream,
                   iterating, candle, received, raised, exit, counters, runs>>

\* line 26: print(candle.id, candle.sentiment_avg)
PrintCandle ==
    /\ pc = 26
    /\ stdout' = Append(stdout, PrintedLine(candle))
    /\ pc' = 24
    /\ UNCHANGED <<env, arrived, creds, channel, stub, candle_stream,
                   iterating, candle, received, raised, exit, counters, runs>>

\* line 24: next(candle_stream) raises StopIteration; the loop ends, main()
\* returns (line 30) and the interpreter exits with status 0.
StreamClosed ==
    /\ pc = 24
    /\ iterating
    /\ Len(received) = K
    /\ arrived = K + 1
    /\ ending = "close"
    /\ pc' = 0
    /\ exit' = 0
    /\ UNCHANGED <<env, arrived, creds, channel, stub, candle_stream,
                   iterating, candle, received, stdout, raised, counters, runs>>

\* Variant of StreamFails: the error is caught and swallowed, the loop ends
\* as if the stream had been closed.
StreamFailsSwallowed ==
    /\ pc = 24
    /\ iterating
    /\ Len(received) = K
    /\ arrived = K + 1
    /\ ending = "error"
    /\ pc' = 0
    /\ exit' = 0
    /\ UNCHANGED <<env, arrived, creds, channel, stub, candle_stream,
                   iterating, candle, received, stdout, raised, counters, runs>>

\* Variant of StreamFails: the error is caught and the channel is opened
\* again.
StreamFailsReconnects ==
    /\ pc = 24
    /\ iterating
    /\ Len(received) = K
    /\ arrived = K + 1
    /\ ending = "error"
    /\ pc' = 17
    /\ UNCHANGED <<env, arrived, creds, channel, stub, candle_stream,
                   iterating, candle, received, stdout, raised, exit, counters,
                   runs>>

\* Variant of StreamFails: the error is caught and the call is issued again.
StreamFailsResubscribes ==
    /\ pc = 24
    /\ iterating
    /\ Len(received) = K
    /\ arrived = K + 1
    /\ ending = "error"
    /\ pc' = 23
    /\ UNCHANGED <<env, arrived, creds, channel, stub, candle_stream,
                   iterating, candle, received, stdout, raised, exit, counters,
                   runs>>

\* Variant of StreamFails: the call has a deadline, next() raises although
\* the stream has neither been closed nor failed.
StreamFailsTimeout ==
    /\ pc = 24
    /\ iterating
    /\ Raise("RpcError")
    /\ UNCHANGED <<env, arrived, creds, channel, stub, candle_stream,
                   iterating, candle, received, stdout, counters, runs>>

\* line 24: next(candle_stream) raises grpc.RpcError
StreamFails ==
    /\ pc = 24
    /\ iterating
    /\ Len(received) = K
    /\ arrived = K + 1
    /\ ending = "error"
    /\ Raise("RpcError")
    /\ UNCHANGED <<env, arrived, creds, channel, stub, candle_stream,
                   iterating, candle, received, stdout, counters, runs>>

\* Variant of Rerun: the lines printed by the previous process are still
\* part of the output of the new one.
RerunKeepsOutput ==
    /\ pc = 0
    /\ run < MaxRuns
    /\ run' = run + 1
    /\ prevStdout' = stdout
    /\ prevExit' = exit
    /\ arrived' = 0
    /\ pc' = 14
    /\ creds' = FALSE
    /\ channel' = "None"
    /\ stub' = FALSE
    /\ candle_stream' = FALSE
    /\ iterating' = FALSE
    /\ candle' = Unbound
    /\ received' = <<>>
    /\ raised' = "None"
    /\ exit' = -1
    /\ certReads' = 0
    /\ channelsOpened' = 0
    /\ callsIssued' = 0
    /\ UNCHANGED <<env, stdout>>

\* lines 29-30: the script is started again as a new process, against the
\* same file, server and stream; a process starts with nothing but the
\* module constants.
Rerun ==
    /\ pc = 0
    /\ run < MaxRuns
    /\ run' = run + 1
    /\ prevStdout' = stdout
    /\ prevExit' = exit
    /\ arrived' = 0
    /\ pc' = 14
    /\ creds' = FALSE
    /\ channel' = "None"
    /\ stub' = FALSE
    /\ candle_stream' = FALSE
    /\ iterating' = FALSE
    /\ candle' = Unbound
    /\ received' = <<>>
    /\ stdout' = <<>>
    /\ raised' = "None"
    /\ exit' = -1
    /\ certReads' = 0
    /\ channelsOpened' = 0
    /\ callsIssued' = 0
    /\ UNCHANGED env

\* The steps of main().
Step ==
    \/ LoadCredentials
    \/ OpenChannel
    \/ CreateStub
    \/ Subscribe
    \/ StartConsuming
    \/ NextCandle
    \/ PrintCandle
    \/ StreamClosed
    \/ StreamFails

Next ==
    \/ LoadCredentials
    \/ OpenChannel
    \/ CreateStub
    \/ Subscribe
    \/ StartConsuming
    \/ Deliver
    \/ NextCandle
    \/ PrintCandle
    \/ StreamClosed
    \/ StreamFails

NextRuns ==
    \/ LoadCredentials
    \/ OpenChannel
    \/ CreateStub
    \/ Subscribe
    \/ StartConsuming
    \/ Deliver
    \/ NextCandle
    \/ PrintCandle
    \/ StreamClosed
    \/ StreamFails
    \/ Rerun

\* One process.
Spec == Init /\ [][Next]_vars

\* One process; the single thread of main() keeps running while it can.
FairSpec == Init /\ [][Next]_vars /\ WF_vars(Step)

\* MaxRuns processes, one after the other, on the same inputs.
SpecRuns == Init /\ [][NextRuns]_vars

\* The process-level state of the script.
State ==
    CASE pc = 14 -> "Idle"
      [] pc = 17 -> "CredentialsLoaded"
      [] pc \in {20, 23} -> "ChannelOpen"
      [] pc = 24 /\ ~iterating -> "Subscribed"
      [] pc \in {24, 26} /\ iterating -> "Consuming"
      [] pc = 0 /\ raised = "None" -> "Completed"
      [] pc = 0 /\ raised # "None" -> "Failed"

TypeOK ==
    /\ pc \in {0, 14, 17, 20, 23, 24, 26}
    /\ exit \in {-1, 0, 1}
    /\ raised \in {"None", "OSError", "RpcError"}
    /\ arrived \in 0..(K + 1)
    /\ received \in SeqsUpTo(Candle, MaxRecords)
    /\ run \in 1..MaxRuns

\* ------------------------------------------------------------- claims
Terminal == {"Completed", "Failed"}

Rank(s) ==
    CASE s = "Idle" -> 0
      [] s = "CredentialsLoaded" -> 1
      [] s = "ChannelOpen" -> 2
      [] s = "Subscribed" -> 3
      [] s = "Consuming" -> 4
      [] s \in Terminal -> 5

\* C1: when the stream delivers its N records and is then closed cleanly,
\* the finished run has printed exactly N lines, line i being the id and
\* then the sentiment_avg of record i, nothing for the close, and the exit
\* status is 0.
C1_CleanCloseOutput ==
    (pc = 0 /\ raised = "None") =>
        /\ Len(stdout) = Len(records)
        /\ stdout = PrintedLines(records)
        /\ exit = 0

C1_Witness ==
    /\ pc = 0
    /\ raised = "None"
    /\ Len(records) = 2
    /\ records[1] # records[2]
    /\ stdout = <<PrintedLine(records[1]), PrintedLine(records[2])>>

\* C2: when the stream fails after K of the N records, the finished run has
\* printed exactly the lines of the first K records, in order, its exit
\* status is not 0, and no line is printed once the failure was raised.
C2_MidStreamFailure ==
    /\ [](  (pc = 0 /\ iterating /\ ending = "error") =>
                /\ raised = "RpcError"
                /\ Len(stdout) = K
                /\ stdout = PrintedLines(SubSeq(records, 1, K))
                /\ exit # 0 )
    /\ [][raised = "RpcError" => stdout' = stdout]_vars

C2_Witness ==
    /\ pc = 0
    /\ raised = "RpcError"
    /\ 0 < K
    /\ K < Len(records)
    /\ Len(stdout) = K

\* C3 (as stated): with a valid certificate and an unreachable address the
\* SubscribeSocialSentiment call is never reached and never issued.
C3_Original ==
    (certFile = "valid" /\ server = "unreachable") =>
        (pc \notin {23, 24, 26} /\ callsIssued = 0)

\* C3 (amended): with a valid certificate and an unreachable address the
\* channel object is created and the call is issued; the connection failure
\* is raised by the first read of the stream, so the run prints no line and
\* ends with the RPC error and a non-zero exit status.
C3_UnreachableFailsAtFirstRead ==
    (certFile = "valid" /\ server = "unreachable") =>
        /\ stdout = <<>>
        /\ received = <<>>
        /\ pc = 0 =>
            /\ raised = "RpcError"
            /\ exit # 0
            /\ channel = SERVER_ADDRESS
            /\ callsIssued = 1
            /\ iterating

C3_Witness ==
    /\ certFile = "valid"
    /\ server = "unreachable"
    /\ pc = 0
    /\ callsIssued = 1

C5_ForwardOnly ==
    [][ /\ State \notin Terminal
        /\ Rank(State') >= Rank(State)
        /\ (State' # State /\ State' # "Failed") => Rank(State') = Rank(State) + 1
        /\ callsIssued' # callsIssued => (channel # "None" /\ stub)
        /\ received' # received => (candle_stream /\ State = "Consuming")
      ]_vars

C5_Witness ==
    /\ State = "Completed"
    /\ creds
    /\ channel # "None"
    /\ stub
    /\ candle_stream
    /\ iterating
    /\ Len(received) > 0

\* C6: in every run the certificate file is opened at most once, at most one
\* channel is created, always to SERVER_ADDRESS, the call is issued at most
\* once, and a raised failure ends the process.
C6_NoRetry ==
    /\ certReads <= 1
    /\ channelsOpened <= 1
    /\ callsIssued <= 1
    /\ channel \in {"None", SERVER_ADDRESS}
    /\ raised # "None" => pc = 0
    /\ (pc = 0 /\ iterating) => (certReads = 1 /\ channelsOpened = 1 /\ callsIssued = 1)

C6_Witness ==
    /\ raised = "RpcError"
    /\ Len(received) > 0
    /\ certReads = 1
    /\ channelsOpened = 1
    /\ callsIssued = 1

\* C7: the exit status is 0 exactly when the run ended by the clean close of
\* the stream, and 1 for a credential load failure, a connection failure
\* and a mid-stream error alike.
C7_ExitStatus ==
    /\ pc # 0 => exit = -1
    /\ pc = 0 =>
        /\ exit \in {0, 1}
        /\ exit = 0 <=> State = "Completed"
        /\ exit # 0 <=> State = "Failed"
        /\ exit = 0 <=> (Connects /\ ending = "close" /\ iterating /\ Len(received) = K)
        /\ (~Connects \/ ending = "error") => exit = 1

C7_Witness ==
    /\ pc = 0
    /\ exit = 0
    /\ State = "Completed"

\* C8: the loop is left only by a step that consumes the end of the stream
\* (close or error) after every delivered record was returned, and once the
\* end of the stream has reached the client the process eventually exits.
C8_LoopEndsWithStream ==
    /\ [][ (State = "Consuming" /\ State' # "Consuming") =>
               /\ arrived = K + 1
               /\ Len(received) = K
               /\ State' \in Terminal ]_vars
    /\ (arrived = K + 1) ~> (pc = 0)

C8_Witness ==
    /\ pc = 0
    /\ iterating
    /\ arrived = K + 1
    /\ K > 0

C10_OutputIsPrefix ==
    /\ Len(received) <= arrived
    /\ received = SubSeq(records, 1, Len(received))
    /\ Len(stdout) <= Len(received)
    /\ Len(received) <= Len(stdout) + 1
    /\ stdout = PrintedLines(SubSeq(records, 1, Len(stdout)))
    /\ pc = 24 => Len(received) = Len(stdout)
    /\ Rank(State) < 4 => (stdout = <<>> /\ received = <<>>)

C10_Witness ==
    /\ pc = 26
    /\ Len(stdout) = 1
    /\ Len(received) = 2
    /\ records[1] # records[2]
====
